---- MODULE Spec2Model ----
(***************************************************************************)
(* VolunChain backend: the rate-limit middleware and the authentication    *)
(* middleware, as they handle one HTTP request.                             *)
(*                                                                         *)
(* One request travels  dispatch -> rateLimiter -> authMiddleware -> the    *)
(* route handler.  Every `await` of the source is a point where the        *)
(* request is suspended: the code before it and the code after it are      *)
(* separate actions, and the user table may change in between.  `next` is  *)
(* a callback supplied by the caller: a call to it returns or throws.      *)
(***************************************************************************)
EXTENDS Integers, Sequences, FiniteSets, TLC

\* ------------------------------------------------------------------ bounds

\* longest Authorization header, counted in lexical atoms
MaxHdrLen == 3
\* largest `remaining` the engine reports
MaxRemaining == 2
\* largest retry delay (minutes) the engine reports
MaxRetryAfter == 2
\* requests sharing one rate-limit key, numbered in the order they arrive
NumReqs == 6
\* times the key's window expires
MaxWindows == 1

\* ------------------------------------------------------------- vocabulary

\* JavaScript's undefined, where a string is expected
Undefined == <<"undefined">>
NoTrace == ""

\* the pieces an Authorization header is made of: scheme words, the blank,
\* and three credentials: tA and tV are signed with the secret and carry the
\* same id with different roles, tX is expired or tampered
Atoms == {"Bearer", "Basic", " ", "tA", "tV", "tX"}

UserIds == {"u1"}
Roles == {"admin", "volunteer"}
TraceIds == {NoTrace, "t1"}
\* req.path, as its segments: three paths under the rate-limited prefixes and
\* two outside them
Paths ==
  {<<"auth", "login">>, <<"wallet">>, <<"email", "verify">>,
   <<"users">>, <<"users", "auth">>}

\* req.headers.authorization: absent, or a string of atoms
Headers ==
  {Undefined} \cup UNION {[1..n -> Atoms] : n \in 0..MaxHdrLen}

EmailOf(id) == id \o "@volunchain.org"

UserRecords ==
  {[id |-> i, email |-> EmailOf(i), role |-> r, isVerified |-> v] :
     i \in UserIds, r \in Roles, v \in BOOLEAN}

\* values standing where a user record may stand
NoUser == [id |-> "undefined", email |-> "", role |-> "", isVerified |-> FALSE]
Null == [id |-> "null", email |-> "", role |-> "", isVerified |-> FALSE]
LookupFault == [id |-> "fault", email |-> "", role |-> "", isVerified |-> FALSE]

\* the user table: a record per id, or Null when the account does not exist
UserTables ==
  {t \in [UserIds -> UserRecords \cup {Null}] :
     \A i \in UserIds : t[i] = Null \/ t[i].id = i}

\* what checkRateLimit settles with: a decision, or a fault
NoDecision == [kind |-> "none", allowed |-> FALSE, remaining |-> 0, retryAfter |-> 0]
EngineFault == [kind |-> "fault", allowed |-> FALSE, remaining |-> 0, retryAfter |-> 0]
Decisions ==
  {[kind |-> "decision", allowed |-> TRUE, remaining |-> r, retryAfter |-> 0] :
     r \in 0..MaxRemaining}
    \cup
  {[kind |-> "decision", allowed |-> FALSE, remaining |-> 0, retryAfter |-> m] :
     m \in 1..MaxRetryAfter}

\* what jwt.verify returns
NoDecoded == [id |-> "undefined", role |-> ""]

VARIABLES
  pc,         \* where the request is
  path,       \* req.path
  traceId,    \* req.traceId
  hdr,        \* req.headers.authorization
  users,      \* the user table behind userRepository
  decision,   \* what checkRateLimit settled with
  decoded,    \* what jwt.verify returned
  fetched,    \* what userRepository.findById settled with
  reqUser,    \* req.user
  remHeader,  \* the X-RateLimit-Remaining response header
  sent,       \* the responses written, in order
  log,        \* the calls made, in order
  unhandled   \* the error of an unhandled promise rejection

vars ==
  <<pc, path, traceId, hdr, users, decision, decoded, fetched, reqUser,
    remHeader, sent, log, unhandled>>

\* the application around the request: its startup and the requests that
\* share one rate-limit key
VARIABLES
  boot,        \* where the startup chain of promises is
  dbUp,        \* prisma.$connect() succeeded
  redisUp,     \* redisClient.connect() succeeded
  cronStarted, \* cronManager.initCronJobs() has run
  listening,   \* app.listen() has been called
  counter,     \* the counter store's count for the key
  window,      \* how many times the key has expired
  rq,          \* the requests sharing the key
  overlap      \* two of them have been in flight at the same time

appVars ==
  <<boot, dbUp, redisUp, cronStarted, listening, counter, window, rq, overlap>>

Reqs == 1..NumReqs

\* a request that has not arrived yet
NewRequest ==
  [st |-> "new", count |-> 0, win |-> 0, header |-> <<>>, status |-> 0,
   retryAfter |-> <<>>, nexts |-> <<>>]

\* the application once it is serving, with no request on the key yet
AppServing ==
  /\ boot = "listening"
  /\ dbUp = TRUE
  /\ redisUp = TRUE
  /\ cronStarted = TRUE
  /\ listening = TRUE
  /\ counter = 0
  /\ window = 0
  /\ rq = [r \in Reqs |-> NewRequest]
  /\ overlap = FALSE

\* ---------------------------------------------------------------- helpers

Count(s, e) == Cardinality({i \in 1..Len(s) : s[i] = e})

Has(s, e) == \E i \in 1..Len(s) : s[i] = e

Before(s, a, b) ==
  \A j \in 1..Len(s) : s[j] = b => \E i \in 1..(j - 1) : s[i] = a

SentBy(who) == {i \in 1..Len(sent) : sent[i].by = who}

\* String.prototype.split(" ")
RECURSIVE SplitAcc(_, _, _, _)
SplitAcc(s, i, cur, out) ==
  IF i > Len(s) THEN Append(out, cur)
  ELSE IF s[i] = " " THEN SplitAcc(s, i + 1, <<>>, Append(out, cur))
  ELSE SplitAcc(s, i + 1, Append(cur, s[i]), out)

Split(s) == SplitAcc(s, 1, <<>>, <<>>)

\* !token is false
Truthy(t) == t # Undefined /\ t # <<>>

\* jwt.verify(token, SECRET_KEY): the claims of a credential signed with the
\* secret and not expired; every other string makes it throw
SignedCredentials == {<<"tA">>, <<"tV">>}

\* jwt.decode in place of jwt.verify: nothing is checked
Verifies_DecodeOnly(t) == TRUE

Verifies(t) == t \in SignedCredentials

Claims(t) ==
  IF t = <<"tA">> THEN [id |-> "u1", role |-> "admin"]
  ELSE [id |-> "u1", role |-> "volunteer"]

\* the statement  res.status(code).json(body)  made by `who`
Respond(who, code, body) ==
  sent' = Append(sent, [by |-> who, status |-> code, body |-> body])

\* -------------------------------------------------------------------- Init

Init ==
  /\ pc = "dispatch"
  /\ path \in Paths
  /\ traceId \in TraceIds
  /\ hdr \in Headers
  /\ users \in UserTables
  /\ decision = NoDecision
  /\ decoded = NoDecoded
  /\ fetched = NoUser
  /\ reqUser = NoUser
  /\ remHeader = "unset"
  /\ sent = <<>>
  /\ log = <<>>
  /\ unhandled = "none"
  /\ AppServing

\* ------------------------------------------------------------ application

\* the prefixes setupRateLimiting mounts the rate limiter on
RateLimitedPrefixes == {<<"auth">>, <<"wallet">>, <<"email">>}

\* a mount that matches the whole path only
Under_Exact(prefix, p) == p = prefix

\* app.use(prefix, ...) matches the paths that start with the prefix
Under(prefix, p) ==
  Len(p) >= Len(prefix) /\ SubSeq(p, 1, Len(prefix)) = prefix

RateLimited(p) == \E prefix \in RateLimitedPrefixes : Under(prefix, p)

\* the application's stack hands the request to the first middleware mounted
\* on its path: the rate limiter under its prefixes, else the route's own
\* chain, which starts with authMiddleware or, on a route that mounts the gate
\* alone, with requireVerifiedEmail
Dispatch ==
  /\ pc = "dispatch"
  /\ IF RateLimited(path)
     THEN pc' = "rateLimiter"
     ELSE pc' \in {"authMiddleware", "requireVerifiedEmail"}
  /\ UNCHANGED <<path, traceId, hdr, users, decision, decoded, fetched, reqUser,
                 remHeader, sent, log, unhandled>>
  /\ UNCHANGED appVars

\* the centralized error handler: a generic 500
ErrorHandler ==
  /\ pc = "errorHandler"
  /\ Respond("errorHandler", 500, [message |-> "Internal server error"])
  /\ pc' = "done"
  /\ UNCHANGED <<path, traceId, hdr, users, decision, decoded, fetched, reqUser,
                 remHeader, log, unhandled>>
  /\ UNCHANGED appVars

\* the route handler behind the middlewares answers the request
RouteHandler ==
  /\ pc = "handler"
  /\ Respond("handler", 200, [message |-> "ok"])
  /\ pc' = "done"
  /\ UNCHANGED <<path, traceId, hdr, users, decision, decoded, fetched, reqUser,
                 remHeader, log, unhandled>>
  /\ UNCHANGED appVars

\* another client's request changes one account while this request is
\* suspended: the account is verified or unverified, its role changes, it is
\* deleted or created
UserTableChanges ==
  /\ pc \in {"rl_await", "auth_await", "gate_await"}
  /\ \E i \in UserIds :
       \E r \in {u \in UserRecords : u.id = i} \cup {Null} :
         /\ r # users[i]
         /\ users' = [users EXCEPT ![i] = r]
  /\ UNCHANGED <<pc, path, traceId, hdr, decision, decoded, fetched, reqUser,
                 remHeader, sent, log, unhandled>>
  /\ UNCHANGED appVars

\* ------------------------------------------------------------ rateLimiter

\* the characters of a decimal numeral
DigitChars == <<"0", "1", "2", "3", "4", "5", "6", "7", "8", "9">>

\* Number.prototype.toString of a non-negative integer: its decimal digits
RECURSIVE NumberToString(_)
NumberToString(n) ==
  IF n < 10 THEN <<DigitChars[n + 1]>>
  ELSE Append(NumberToString(n \div 10), DigitChars[(n % 10) + 1])

\* the delay written without the conversion to seconds
RetryAfterText_Minutes(m) == Append(NumberToString(m), " seconds")

\* retryAfter * 60 + " seconds": the product, as a string, followed by the
\* word
RetryAfterText(m) == Append(NumberToString(m * 60), " seconds")

\* the body of the 429 response; traceId only when req.traceId is set
TooManyRequests(d, t) ==
  IF t # NoTrace
  THEN [error |-> "Too Many Requests",
        message |-> "You have exceeded the rate limit. Please try again later.",
        retryAfter |-> RetryAfterText(d.retryAfter),
        traceId |-> t]
  ELSE [error |-> "Too Many Requests",
        message |-> "You have exceeded the rate limit. Please try again later.",
        retryAfter |-> RetryAfterText(d.retryAfter)]

\* rateLimiter up to its await: checkRateLimit() is started and not awaited
RateLimiterCall ==
  /\ pc = "rateLimiter"
  /\ log' = Append(log, "checkRateLimit")
  /\ pc' = "rl_await"
  /\ UNCHANGED <<path, traceId, hdr, users, decision, decoded, fetched, reqUser,
                 remHeader, sent, unhandled>>
  /\ UNCHANGED appVars

\* a catch block that rethrows instead of forwarding
RateLimiterCatch_Rethrows(calls, error, errThrows) ==
  /\ log' = calls
  /\ pc' = "done"
  /\ unhandled' = error
  /\ sent' = sent

\* the catch block, entered with the calls made so far: the error is logged
\* and handed to next(error); when that call throws, the promise of
\* checkRateLimit() rejects with nobody awaiting it
RateLimiterCatch(calls, error, errThrows) ==
  /\ log' = Append(calls, "rl_next(" \o error \o ")")
  /\ IF errThrows
     THEN pc' = "done" /\ unhandled' = "thrown"
     ELSE pc' = "errorHandler" /\ unhandled' = unhandled
  /\ sent' = sent

\* the 429 branch without its return: the code falls through to next()
RateLimiterTry_NoReturn(d, nextThrows, errThrows) ==
  /\ remHeader' = ToString(d.remaining)
  /\ IF ~d.allowed
     THEN Respond("rateLimiter", 429, TooManyRequests(d, traceId))
     ELSE sent' = sent
  /\ log' = log \o <<"decided", "rl_next()">>
  /\ pc' = "authMiddleware"
  /\ unhandled' = unhandled

\* the try block after the await resolved with d
RateLimiterTry(d, nextThrows, errThrows) ==
  /\ remHeader' = ToString(d.remaining)
  /\ IF ~d.allowed
     THEN /\ Respond("rateLimiter", 429, TooManyRequests(d, traceId))
          /\ log' = Append(log, "decided")
          /\ pc' = "done"
          /\ unhandled' = unhandled
     ELSE IF nextThrows
          THEN RateLimiterCatch(log \o <<"decided", "rl_next()">>, "thrown", errThrows)
          ELSE /\ log' = log \o <<"decided", "rl_next()">>
               /\ pc' = "authMiddleware"
               /\ sent' = sent
               /\ unhandled' = unhandled

\* checkRateLimit resolves
RateLimiterResolved ==
  /\ pc = "rl_await"
  /\ \E d \in Decisions, nextThrows \in BOOLEAN, errThrows \in BOOLEAN :
       /\ decision' = d
       /\ RateLimiterTry(d, nextThrows, errThrows)
  /\ UNCHANGED <<path, traceId, hdr, users, decoded, fetched, reqUser>>
  /\ UNCHANGED appVars

\* checkRateLimit rejects
RateLimiterRejected ==
  /\ pc = "rl_await"
  /\ \E errThrows \in BOOLEAN :
       /\ decision' = EngineFault
       /\ RateLimiterCatch(Append(log, "faulted"), "engineFault", errThrows)
  /\ UNCHANGED <<path, traceId, hdr, users, decoded, fetched, reqUser, remHeader>>
  /\ UNCHANGED appVars

\* --------------------------------------------------------- authMiddleware

\* req.headers.authorization?.split(" ")[1]
ExtractToken(h) ==
  IF h = Undefined THEN Undefined
  ELSE LET parts == Split(h)
       IN  IF Len(parts) >= 2 THEN parts[2] ELSE Undefined

\* the catch block: every error of the try block is answered the same way
AuthCatch ==
  /\ Respond("authMiddleware", 401, [message |-> "Invalid token"])
  /\ pc' = "done"

\* the null test left out
UserMissing_Never(user) == FALSE

\* !user
UserMissing(user) == user = Null

\* the verification test left out
Unverified_Never(user) == FALSE

\* !user.isVerified
Unverified(user) == ~user.isVerified

\* the role read from the record instead of the token
AuthenticatedUser_RecordRole(claims, user) ==
  [id |-> user.id, email |-> user.email, role |-> user.role,
   isVerified |-> user.isVerified]

\* the object assigned to req.user
AuthenticatedUser(claims, user) ==
  [id |-> user.id, email |-> user.email, role |-> claims.role,
   isVerified |-> user.isVerified]

\* the `if (!token)` block left out: jwt.verify is called with whatever was
\* extracted
AuthBegin_NoTokenCheck(token) ==
  IF ~Verifies(token) \/ ~Truthy(token)
  THEN /\ log' = log \o <<"authMiddleware", "jwt.verify">>
       /\ AuthCatch
       /\ decoded' = decoded
  ELSE /\ log' = log \o <<"authMiddleware", "jwt.verify", "findById">>
       /\ decoded' = Claims(token)
       /\ pc' = "auth_await"
       /\ sent' = sent

\* authMiddleware from the token it extracted up to its await
AuthBegin(token) ==
  IF ~Truthy(token)
  THEN /\ Respond("authMiddleware", 401, [message |-> "No token provided"])
       /\ log' = Append(log, "authMiddleware")
       /\ pc' = "done"
       /\ decoded' = decoded
  ELSE IF ~Verifies(token)
  THEN /\ log' = log \o <<"authMiddleware", "jwt.verify">>
       /\ AuthCatch
       /\ decoded' = decoded
  ELSE /\ log' = log \o <<"authMiddleware", "jwt.verify", "findById">>
       /\ decoded' = Claims(token)
       /\ pc' = "auth_await"
       /\ sent' = sent

AuthMiddlewareEnter ==
  /\ pc = "authMiddleware"
  /\ AuthBegin(ExtractToken(hdr))
  /\ UNCHANGED <<path, traceId, hdr, users, decision, fetched, reqUser,
                 remHeader, unhandled>>
  /\ UNCHANGED appVars

\* req.user assigned as soon as the record is there, before the verification
\* test
AuthAfterLookup_AttachEarly(user, nextThrows) ==
  IF user = LookupFault
  THEN AuthCatch /\ log' = log /\ reqUser' = reqUser
  ELSE IF UserMissing(user)
  THEN /\ Respond("authMiddleware", 401, [message |-> "User not found"])
       /\ pc' = "done"
       /\ log' = log
       /\ reqUser' = reqUser
  ELSE IF Unverified(user)
  THEN /\ Respond("authMiddleware", 403,
            [message |-> "Email not verified. Please verify your email to proceed."])
       /\ pc' = "done"
       /\ log' = log
       /\ reqUser' = AuthenticatedUser(decoded, user)
  ELSE /\ reqUser' = AuthenticatedUser(decoded, user)
       /\ log' = Append(log, "auth_next()")
       /\ IF nextThrows
          THEN AuthCatch
          ELSE pc' \in {"requireVerifiedEmail", "handler"} /\ sent' = sent

\* the try block after findById settled with user
AuthAfterLookup(user, nextThrows) ==
  IF user = LookupFault
  THEN AuthCatch /\ log' = log /\ reqUser' = reqUser
  ELSE IF UserMissing(user)
  THEN /\ Respond("authMiddleware", 401, [message |-> "User not found"])
       /\ pc' = "done"
       /\ log' = log
       /\ reqUser' = reqUser
  ELSE IF Unverified(user)
  THEN /\ Respond("authMiddleware", 403,
            [message |-> "Email not verified. Please verify your email to proceed."])
       /\ pc' = "done"
       /\ log' = log
       /\ reqUser' = reqUser
  ELSE /\ reqUser' = AuthenticatedUser(decoded, user)
       /\ log' = Append(log, "auth_next()")
       /\ IF nextThrows
          THEN AuthCatch
          ELSE pc' \in {"requireVerifiedEmail", "handler"} /\ sent' = sent

\* userRepository.findById settles: with the record of the decoded id, with
\* null, or with a fault
AuthLookupSettled ==
  /\ pc = "auth_await"
  /\ \E faults \in BOOLEAN, nextThrows \in BOOLEAN :
       LET user == IF faults THEN LookupFault ELSE users[decoded.id]
       IN  /\ fetched' = user
           /\ AuthAfterLookup(user, nextThrows)
  /\ UNCHANGED <<path, traceId, hdr, users, decision, decoded, remHeader,
                 unhandled>>
  /\ UNCHANGED appVars

\* --------------------------------------------------- requireVerifiedEmail

\* userRepository.isUserVerified(id): the verification flag of the account,
\* false when there is no such account
IsUserVerified(table, id) ==
  id \in DOMAIN table /\ table[id] # Null /\ table[id].isVerified

\* the body of the 500 response; traceId only when req.traceId is set
InternalServerError(t) ==
  IF t # NoTrace
  THEN [message |-> "Internal server error", traceId |-> t]
  ELSE [message |-> "Internal server error"]

\* a catch block that never adds the trace identifier
GateCatch_NoTrace ==
  /\ Respond("requireVerifiedEmail", 500, [message |-> "Internal server error"])
  /\ pc' = "done"

\* the catch block: the error is printed and answered with 500
GateCatch ==
  /\ Respond("requireVerifiedEmail", 500, InternalServerError(traceId))
  /\ pc' = "done"

\* the test made on req.user.isVerified in place of the looked-up value
GateVerified_Cached(live, user) == user.isVerified

\* the value `if (!isVerified)` tests: what the lookup returned
GateVerified(live, user) == live

\* the `if (!authenticatedReq.user)` block left out: reading user.id throws
\* inside the try block
GateBegin_NoUserCheck(user) ==
  IF user = NoUser
  THEN /\ log' = Append(log, "requireVerifiedEmail")
       /\ GateCatch
  ELSE /\ log' = log \o <<"requireVerifiedEmail", "isUserVerified">>
       /\ pc' = "gate_await"
       /\ sent' = sent

\* requireVerifiedEmail from its entry up to its await
GateBegin(user) ==
  IF user = NoUser
  THEN /\ Respond("requireVerifiedEmail", 401,
            [message |-> "Unauthorized - Authentication required"])
       /\ log' = Append(log, "requireVerifiedEmail")
       /\ pc' = "done"
  ELSE /\ log' = log \o <<"requireVerifiedEmail", "isUserVerified">>
       /\ pc' = "gate_await"
       /\ sent' = sent

GateEnter ==
  /\ pc = "requireVerifiedEmail"
  /\ GateBegin(reqUser)
  /\ UNCHANGED <<path, traceId, hdr, users, decision, decoded, fetched, reqUser,
                 remHeader, unhandled>>
  /\ UNCHANGED appVars

\* the try block after isUserVerified settled: live is its value, faults
\* says that it rejected instead
GateAfterLookup(live, faults, nextThrows) ==
  IF faults
  THEN /\ log' = Append(log, "verified=fault")
       /\ GateCatch
       /\ reqUser' = reqUser
  ELSE IF ~GateVerified(live, reqUser)
  THEN /\ Respond("requireVerifiedEmail", 403,
            [message |-> "Forbidden - Email verification required",
             verificationNeeded |-> TRUE])
       /\ log' = Append(log, "verified=" \o ToString(live))
       /\ pc' = "done"
       /\ reqUser' = reqUser
  ELSE /\ reqUser' = [reqUser EXCEPT !.isVerified = TRUE]
       /\ log' = log \o <<"verified=" \o ToString(live), "gate_next()">>
       /\ IF nextThrows
          THEN GateCatch
          ELSE pc' = "handler" /\ sent' = sent

\* userRepository.isUserVerified settles: with the account's flag as it is
\* now, or with a fault
GateLookupSettled ==
  /\ pc = "gate_await"
  /\ \E faults \in BOOLEAN, nextThrows \in BOOLEAN :
       GateAfterLookup(IsUserVerified(users, reqUser.id), faults, nextThrows)
  /\ UNCHANGED <<path, traceId, hdr, users, decision, decoded, fetched,
                 remHeader, unhandled>>
  /\ UNCHANGED appVars

\* -------------------------------------------------------------------- Spec

Next ==
  \/ Dispatch
  \/ RateLimiterCall
  \/ RateLimiterResolved
  \/ RateLimiterRejected
  \/ AuthMiddlewareEnter
  \/ AuthLookupSettled
  \/ GateEnter
  \/ GateLookupSettled
  \/ RouteHandler
  \/ ErrorHandler
  \/ UserTableChanges

Spec == Init /\ [][Next]_vars

TypeOK ==
  /\ pc \in {"dispatch", "rateLimiter", "rl_await", "authMiddleware",
             "auth_await", "requireVerifiedEmail", "gate_await", "handler",
             "errorHandler", "done"}
  /\ path \in Paths
  /\ traceId \in TraceIds
  /\ hdr \in Headers
  /\ users \in UserTables
  /\ decision \in Decisions \cup {NoDecision, EngineFault}
  /\ reqUser \in UserRecords \cup {NoUser}
  /\ fetched \in UserRecords \cup {NoUser, Null, LookupFault}
  /\ unhandled \in {"none", "thrown", "engineFault"}
  /\ Len(sent) <= 2

\* ---------------------------------------------------------------- startup

\* prisma.$connect() settles: its then-callback starts initializeRedis, its
\* catch-callback prints the error
DbConnectSettled ==
  /\ boot = "connecting"
  /\ \E ok \in BOOLEAN :
       /\ dbUp' = ok
       /\ boot' = IF ok THEN "initializeRedis" ELSE "failed"
  /\ UNCHANGED <<redisUp, cronStarted, listening, counter, window, rq, overlap>>
  /\ UNCHANGED vars

\* initializeRedis after redisClient.connect() settles: a failure is caught
\* and printed, and the function returns normally either way
InitializeRedisSettled ==
  /\ boot = "initializeRedis"
  /\ \E ok \in BOOLEAN : redisUp' = ok
  /\ boot' = "initialized"
  /\ UNCHANGED <<dbUp, cronStarted, listening, counter, window, rq, overlap>>
  /\ UNCHANGED vars

\* the then-callback of initializeRedis(): the cron jobs, then app.listen;
\* when initCronJobs throws, the catch-callback prints the error
StartServer ==
  /\ boot = "initialized"
  /\ \E cronThrows \in BOOLEAN :
       IF cronThrows
       THEN /\ boot' = "failed"
            /\ UNCHANGED <<cronStarted, listening>>
       ELSE /\ cronStarted' = TRUE
            /\ listening' = TRUE
            /\ boot' = "listening"
  /\ UNCHANGED <<dbUp, redisUp, counter, window, rq, overlap>>
  /\ UNCHANGED vars

\* ------------------------------------------------------ rate-limit engine

\* the configured maximum of requests per window
Limit == 5
\* the configured window, in minutes
WindowMinutes == 1

Max(a, b) == IF a >= b THEN a ELSE b

\* the decision of checkRateLimit for the count the store returned
EngineDecide(count) ==
  [kind |-> "decision",
   allowed |-> count <= Limit,
   remaining |-> Max(0, Limit - count),
   retryAfter |-> IF count <= Limit THEN 0 ELSE WindowMinutes]

InFlight(r) == rq[r].st \in {"counted", "failing"}

\* the store's increment of the key: the count is raised and the new count
\* returned in one step
StoreIncrement(c) == c + 1

\* a request arrives at rateLimiter, which starts checkRateLimit: the store
\* increments the key's counter and returns the new count, or, when the
\* store was never connected, cannot be reached
RateLimitedRequestArrives(r) ==
  /\ listening
  /\ rq[r].st = "new"
  /\ \A q \in Reqs : q < r => rq[q].st # "new"
  /\ IF redisUp
     THEN /\ counter' = StoreIncrement(counter)
          /\ rq' = [rq EXCEPT ![r] =
                      [@ EXCEPT !.st = "counted",
                                !.count = StoreIncrement(counter),
                                !.win = window]]
     ELSE /\ counter' = counter
          /\ rq' = [rq EXCEPT ![r] = [@ EXCEPT !.st = "failing", !.win = window]]
  /\ overlap' = (overlap \/ \E q \in Reqs : InFlight(q))
  /\ UNCHANGED <<boot, dbUp, redisUp, cronStarted, listening, window>>
  /\ UNCHANGED vars

\* the key expires: the next increment starts a new window
WindowExpires ==
  /\ counter > 0
  /\ window < MaxWindows
  /\ counter' = 0
  /\ window' = window + 1
  /\ UNCHANGED <<boot, dbUp, redisUp, cronStarted, listening, rq, overlap>>
  /\ UNCHANGED vars

\* ----------------------------------------- rateLimiter, one of many requests

\* next() called whatever the decision
Admits_Always(d) == TRUE

\* the test made on the remaining count instead of the allowed flag
Admits_WhileRemaining(d) == d.remaining > 0

\* the test `if (!allowed)` lets the request through
Admits(d) == d.allowed

\* the try block after the await resolved with d, on the record q of the
\* request: the header, then the 429 or the call of next()
RateLimiterOutcome(q, d) ==
  IF ~Admits(d)
  THEN [q EXCEPT !.st = "denied",
                 !.header = NumberToString(d.remaining),
                 !.status = 429,
                 !.retryAfter = RetryAfterText(d.retryAfter)]
  ELSE [q EXCEPT !.st = "admitted",
                 !.header = NumberToString(d.remaining),
                 !.nexts = <<"next()">>]

\* checkRateLimit resolves for request r
RateLimitedRequestResolved(r) ==
  /\ rq[r].st = "counted"
  /\ rq' = [rq EXCEPT ![r] = RateLimiterOutcome(@, EngineDecide(rq[r].count))]
  /\ UNCHANGED <<boot, dbUp, redisUp, cronStarted, listening, counter, window,
                 overlap>>
  /\ UNCHANGED vars

\* checkRateLimit rejects for request r: the catch block calls next(error)
RateLimitedRequestRejected(r) ==
  /\ rq[r].st = "failing"
  /\ rq' = [rq EXCEPT ![r] =
              [@ EXCEPT !.st = "faulted", !.nexts = <<"next(engineFault)">>]]
  /\ UNCHANGED <<boot, dbUp, redisUp, cronStarted, listening, counter, window,
                 overlap>>
  /\ UNCHANGED vars

\* ----------------------------------------------------------------- SpecApp

\* the process starts: nothing connected, and the request variables at rest
AppInit ==
  /\ boot = "connecting"
  /\ dbUp = FALSE
  /\ redisUp = FALSE
  /\ cronStarted = FALSE
  /\ listening = FALSE
  /\ counter = 0
  /\ window = 0
  /\ rq = [r \in Reqs |-> NewRequest]
  /\ overlap = FALSE
  /\ pc = "done"
  /\ path = <<"wallet">>
  /\ traceId = NoTrace
  /\ hdr = Undefined
  /\ users = [i \in UserIds |-> Null]
  /\ decision = NoDecision
  /\ decoded = NoDecoded
  /\ fetched = NoUser
  /\ reqUser = NoUser
  /\ remHeader = "unset"
  /\ sent = <<>>
  /\ log = <<>>
  /\ unhandled = "none"

AppNext ==
  \/ DbConnectSettled
  \/ InitializeRedisSettled
  \/ StartServer
  \/ \E r \in Reqs : RateLimitedRequestArrives(r)
  \/ \E r \in Reqs : RateLimitedRequestResolved(r)
  \/ \E r \in Reqs : RateLimitedRequestRejected(r)
  \/ WindowExpires

SpecApp == AppInit /\ [][AppNext]_appVars

AppTypeOK ==
  /\ boot \in {"connecting", "initializeRedis", "initialized", "listening",
               "failed"}
  /\ counter \in 0..NumReqs
  /\ window \in 0..MaxWindows
  /\ \A r \in Reqs :
       rq[r].st \in {"new", "counted", "failing", "admitted", "denied", "faulted"}

\* ------------------------------------------------------------------ claims

Denied == decision.kind = "decision" /\ ~decision.allowed
Allowed == decision.kind = "decision" /\ decision.allowed
RateLimiterNextCalls ==
  Count(log, "rl_next()") + Count(log, "rl_next(thrown)")
    + Count(log, "rl_next(engineFault)")
AuthEntered == Has(log, "authMiddleware")
AuthAnswer(code, text) ==
  [by |-> "authMiddleware", status |-> code, body |-> [message |-> text]]

\* C1: when checkRateLimit resolves with allowed = false, rateLimiter writes
\* one response, status 429 with a body holding error, message and
\* retryAfter, and calls next neither as next() nor as next(error).
C1_DeniedIs429WithoutNext ==
  Denied =>
    /\ Len(sent) = 1
    /\ sent[1].by = "rateLimiter"
    /\ sent[1].status = 429
    /\ {"error", "message", "retryAfter"} \subseteq DOMAIN sent[1].body
    /\ RateLimiterNextCalls = 0
    /\ pc = "done"

C1_Witness == Denied /\ pc = "done" /\ Len(sent) = 1

\* C2: when checkRateLimit resolves with allowed = true, rateLimiter calls
\* next exactly once, after the decision resolved, and writes no response.
C2_AllowedCallsNextOnce ==
  Allowed =>
    /\ RateLimiterNextCalls = 1
    /\ Before(log, "decided", "rl_next()")
    /\ SentBy("rateLimiter") = {}

\* C3: when checkRateLimit faults, rateLimiter hands that fault to next(error)
\* exactly once, writes no response (no 429 in particular), and the fault
\* does not become an unhandled rejection.
C3_FaultForwardedOnce ==
  decision = EngineFault =>
    /\ Count(log, "rl_next(engineFault)") = 1
    /\ RateLimiterNextCalls = 1
    /\ SentBy("rateLimiter") = {}
    /\ \A i \in 1..Len(sent) : sent[i].status # 429
    /\ unhandled # "engineFault"

C3_Witness ==
  decision = EngineFault /\ pc = "errorHandler" /\ Has(log, "rl_next(engineFault)")

\* C4: when the token verifies and findById faults, no 401 and no 403 is
\* written, and the request ends with the error handler's 500.
C4_LookupFaultIs500 ==
  fetched = LookupFault =>
    /\ \A i \in 1..Len(sent) : sent[i].status \notin {401, 403}
    /\ pc = "done" => \E i \in SentBy("errorHandler") : sent[i].status = 500

\* C5: a request without Authorization header ends in 401 "No token
\* provided"; jwt.verify and findById are not called, req.user is not set and
\* next is not called.
C5_NoHeaderIs401 ==
  (hdr = Undefined /\ AuthEntered) =>
    /\ sent = <<AuthAnswer(401, "No token provided")>>
    /\ ~Has(log, "jwt.verify")
    /\ ~Has(log, "findById")
    /\ ~Has(log, "auth_next()")
    /\ reqUser = NoUser
    /\ pc = "done"

C5_Witness == hdr = Undefined /\ AuthEntered /\ pc = "done"

\* a header of the form  Bearer <token>
BearerForm(h) ==
  /\ h # Undefined
  /\ Len(h) >= 3
  /\ h[1] = "Bearer"
  /\ h[2] = " "
  /\ \A i \in 3..Len(h) : h[i] # " "

\* C6: a header that is present and not of the form Bearer <token> is
\* answered 401 "No token provided", without jwt.verify, findById or next.
C6_OnlyBearerScheme ==
  (hdr # Undefined /\ ~BearerForm(hdr) /\ AuthEntered) =>
    /\ sent = <<AuthAnswer(401, "No token provided")>>
    /\ ~Has(log, "jwt.verify")
    /\ ~Has(log, "findById")
    /\ ~Has(log, "auth_next()")

\* C7: a token that fails verification is answered 401 "Invalid token",
\* whatever the user table holds; findById is not called, req.user is not set
\* and next is not called.
C7_BadTokenIs401 ==
  (AuthEntered /\ Truthy(ExtractToken(hdr))
     /\ ExtractToken(hdr) \notin SignedCredentials) =>
    /\ sent = <<AuthAnswer(401, "Invalid token")>>
    /\ ~Has(log, "findById")
    /\ ~Has(log, "auth_next()")
    /\ reqUser = NoUser
    /\ pc = "done"

C7_Witness ==
  /\ AuthEntered
  /\ ExtractToken(hdr) = <<"tX">>
  /\ users["u1"] # Null
  /\ pc = "done"

\* C8: when the token verifies and findById returns null, the answer is 401
\* "User not found", req.user is not set and next is not called.
C8_MissingUserIs401 ==
  fetched = Null =>
    /\ sent = <<AuthAnswer(401, "User not found")>>
    /\ ~Has(log, "auth_next()")
    /\ reqUser = NoUser
    /\ pc = "done"

C8_Witness == fetched = Null /\ pc = "done" /\ Has(log, "findById")

\* C9: when the token verifies and the user exists, an unverified record is
\* answered 403 with the verification message and next is not called; a
\* verified record gets next called exactly once with req.user set and
\* req.user.isVerified true, and no 403.
C9_VerificationFlagDecides ==
  fetched \in UserRecords =>
    IF ~fetched.isVerified
    THEN /\ sent = <<AuthAnswer(403,
                "Email not verified. Please verify your email to proceed.")>>
         /\ ~Has(log, "auth_next()")
         /\ reqUser = NoUser
    ELSE /\ Count(log, "auth_next()") = 1
         /\ reqUser # NoUser
         /\ reqUser.isVerified = TRUE
         /\ \A i \in SentBy("authMiddleware") : sent[i].status # 403

C9_Witness ==
  fetched \in UserRecords /\ fetched.isVerified /\ pc = "handler"
    /\ Has(log, "auth_next()") /\ ~Has(log, "requireVerifiedEmail")

\* C10: the attached user has the role of the token's claims and the id,
\* email and isVerified of the record findById returned.
C10_RoleFromTokenRestFromRecord ==
  reqUser # NoUser =>
    /\ reqUser.role = decoded.role
    /\ reqUser.id = fetched.id
    /\ reqUser.email = fetched.email
    /\ reqUser.isVerified = fetched.isVerified

C10_Witness ==
  reqUser # NoUser /\ fetched \in UserRecords /\ fetched.role # decoded.role

\* the calls of next and the responses of one middleware
NextCallsOf(who) ==
  IF who = "rateLimiter" THEN RateLimiterNextCalls
  ELSE IF who = "authMiddleware" THEN Count(log, "auth_next()")
  ELSE Count(log, "gate_next()")
Middlewares == {"rateLimiter", "authMiddleware", "requireVerifiedEmail"}
GateEntered == Has(log, "requireVerifiedEmail")
GateAnswer(code, body) ==
  [by |-> "requireVerifiedEmail", status |-> code, body |-> body]

\* C11: every middleware of the chain ends by doing exactly one of writing a
\* response and calling next; a request gets at most one response, and a
\* middleware that called next writes none.
C11_OneOutcomePerMiddleware ==
  /\ \A m \in Middlewares :
       Cardinality(SentBy(m)) + NextCallsOf(m) <= 1
  /\ Len(sent) <= 1

\* C12: a request that reaches requireVerifiedEmail without req.user is
\* answered 401 (authentication required); isUserVerified is not called and
\* next is not called.
C12_GateWithoutUserIs401 ==
  (GateEntered /\ reqUser = NoUser) =>
    /\ sent = <<GateAnswer(401,
                  [message |-> "Unauthorized - Authentication required"])>>
    /\ ~Has(log, "isUserVerified")
    /\ ~Has(log, "gate_next()")
    /\ pc = "done"

C12_Witness == GateEntered /\ reqUser = NoUser /\ pc = "done"

\* C13: requireVerifiedEmail decides on what isUserVerified returns when the
\* gate runs: a user that authMiddleware attached as verified and whose
\* lookup returns false is answered 403 with verificationNeeded true, and
\* next is not called.
C13_GateUsesLiveStatus ==
  (Has(log, "auth_next()") /\ Has(log, "verified=FALSE")) =>
    /\ sent = <<GateAnswer(403,
                  [message |-> "Forbidden - Email verification required",
                   verificationNeeded |-> TRUE])>>
    /\ ~Has(log, "gate_next()")
    /\ pc = "done"

C13_Witness ==
  /\ Has(log, "auth_next()")
  /\ fetched.isVerified
  /\ reqUser.isVerified
  /\ Has(log, "verified=FALSE")
  /\ pc = "done"

\* C14, as claimed: when isUserVerified faults the answer is 500 and carries
\* the trace identifier; next is not called and no 403 is written.
C14_GateFaultIs500WithTrace ==
  Has(log, "verified=fault") =>
    /\ Len(sent) = 1
    /\ sent[1].by = "requireVerifiedEmail"
    /\ sent[1].status = 500
    /\ "traceId" \in DOMAIN sent[1].body
    /\ ~Has(log, "gate_next()")

\* C14, amended: when isUserVerified faults the answer is 500, carrying the
\* trace identifier of the request when the request has one and none
\* otherwise; next is not called and no 403 is written.
C14_GateFaultIs500 ==
  Has(log, "verified=fault") =>
    /\ Len(sent) = 1
    /\ sent[1].by = "requireVerifiedEmail"
    /\ sent[1].status = 500
    /\ sent[1].body.message = "Internal server error"
    /\ ("traceId" \in DOMAIN sent[1].body) <=> (traceId # NoTrace)
    /\ traceId # NoTrace => sent[1].body.traceId = traceId
    /\ ~Has(log, "gate_next()")
    /\ pc = "done"

C14_Witness ==
  Has(log, "verified=fault") /\ traceId # NoTrace /\ pc = "done"

\* something behind the rate limiter has been started for the request
DownstreamReached ==
  \/ AuthEntered
  \/ GateEntered
  \/ SentBy("handler") # {}
  \/ pc \in {"authMiddleware", "auth_await", "requireVerifiedEmail",
             "gate_await", "handler"}

UnderRateLimitedPrefix == path[1] \in {"auth", "wallet", "email"}

\* C18: under /auth, /wallet and /email nothing behind the rate limiter runs
\* before the decision is taken; a request that is denied, or whose check
\* faults, reaches nothing behind the rate limiter; under every other prefix
\* checkRateLimit is never called.
C18_RateLimitBeforeRoutes ==
  /\ (UnderRateLimitedPrefix /\ DownstreamReached) =>
       /\ Allowed
       /\ Has(log, "decided")
       /\ Before(log, "decided", "authMiddleware")
       /\ Before(log, "decided", "requireVerifiedEmail")
  /\ (Denied \/ decision = EngineFault) => ~DownstreamReached
  /\ ~UnderRateLimitedPrefix => ~Has(log, "checkRateLimit")

C18_Witness ==
  /\ path = <<"auth", "login">>
  /\ Allowed
  /\ SentBy("handler") # {}
  /\ pc = "done"

\* C20: next has been called by authMiddleware only if the token verified,
\* findById returned a record and that record was verified; and req.user is
\* set exactly when authMiddleware has called next.
C20_AuthGate ==
  /\ Has(log, "auth_next()") =>
       /\ ExtractToken(hdr) \in SignedCredentials
       /\ fetched \in UserRecords
       /\ fetched.isVerified
  /\ (reqUser # NoUser) <=> Has(log, "auth_next()")

C20_Witness ==
  reqUser # NoUser /\ Has(log, "auth_next()") /\ pc = "handler"

IsDigit(c) == \E i \in 1..10 : DigitChars[i] = c
DigitValue(c) == CHOOSE d \in 0..9 : DigitChars[d + 1] = c

\* the integer a string of digits denotes
RECURSIVE ParseInt(_)
ParseInt(t) ==
  IF t = <<>> THEN 0
  ELSE 10 * ParseInt(SubSeq(t, 1, Len(t) - 1)) + DigitValue(t[Len(t)])

\* a numeral without sign, fraction or leading zero, followed by " seconds"
WellFormedSeconds(t) ==
  /\ Len(t) >= 2
  /\ t[Len(t)] = " seconds"
  /\ \A j \in 1..(Len(t) - 1) : IsDigit(t[j])
  /\ Len(t) > 2 => t[1] # "0"

AdmittedIn(w) == {r \in Reqs : rq[r].st = "admitted" /\ rq[r].win = w}

\* C15: whatever the interleaving of the requests sharing a key, the
\* requests admitted within one window are never more than the configured
\* maximum.
C15_NeverMoreThanLimit ==
  \A w \in 0..MaxWindows : Cardinality(AdmittedIn(w)) <= Limit

\* the last slot was taken while requests were in flight together, and the
\* request after it was turned away
C15_Witness ==
  /\ overlap
  /\ \E r \in Reqs :
       /\ r + 1 \in Reqs
       /\ rq[r].st = "admitted"
       /\ rq[r + 1].st = "denied"
       /\ rq[r].win = rq[r + 1].win
       /\ Cardinality(AdmittedIn(rq[r].win)) = 5

\* the place of request r among the requests of its window, in arrival order
Rank(r) ==
  1 + Cardinality({q \in Reqs : q < r /\ rq[q].win = rq[r].win
                                  /\ rq[q].st \notin {"new", "failing", "faulted"}})

\* C16: of the requests of one window, those with rank 1..max are allowed and
\* every later one is denied with 429, and X-RateLimit-Remaining is
\* max(0, max - rank).
C16_FirstMaxAllowedRestDenied ==
  \A r \in Reqs :
    rq[r].st \in {"admitted", "denied"} =>
      /\ (rq[r].st = "admitted") <=> (Rank(r) <= 5)
      /\ rq[r].header =
           NumberToString(IF Rank(r) <= 5 THEN 5 - Rank(r) ELSE 0)
      /\ rq[r].st = "denied" => rq[r].status = 429
      /\ rq[r].st = "admitted" => rq[r].nexts = <<"next()">>

\* six requests, one after the other, in one window
C16_Witness ==
  /\ ~overlap
  /\ \A r \in 1..6 : rq[r].win = 0
  /\ \A r \in 1..5 : rq[r].st = "admitted"
  /\ rq[6].st = "denied"
  /\ <<rq[1].header, rq[2].header, rq[3].header, rq[4].header, rq[5].header,
       rq[6].header>> = << <<"4">>, <<"3">>, <<"2">>, <<"1">>, <<"0">>, <<"0">> >>
  /\ rq[6].retryAfter = <<"6", "0", " seconds">>

\* C19: the cron jobs are started and app.listen is called only after the
\* database connection succeeded and the Redis connection succeeded.
C19_ListenOnlyWhenConnected ==
  (listening \/ cronStarted) => (dbUp /\ redisUp)

====
